---- MODULE Spec2Model ----
(***************************************************************************)
(* Session manager (AuthService) and HTTP interceptor (authInterceptor) of *)
(* the Angular blog client, as a state machine.                            *)
(*                                                                         *)
(* The repository holds two versions of AuthService: the one every caller  *)
(* imports (core/services/auth.service.ts) and a second one appended to    *)
(* core/models/auth.model.ts, whose logout() notifies the backend and      *)
(* whose initAuth() orders its early returns differently.  The variable    *)
(* impl selects the version for a whole behaviour.                         *)
(*                                                                         *)
(* One action is one turn of the event loop: a call made by the            *)
(* application, or the arrival of one HTTP response together with every    *)
(* callback that runs synchronously on it.                                 *)
(***************************************************************************)
EXTENDS Integers, Sequences, FiniteSets, Bags, TLC

\* ----- bounds of the model -----
NProc == 2          \* HTTP call chains that can be outstanding at once
MaxOps == 4         \* calls the application makes in one behaviour
MaxTok == 2         \* token pairs the backend has issued by the end of a behaviour
MaxBody == 2        \* bytes in a body that passes the gateway

\* ----- value domains -----
Impls == {"service", "model"}
Users == {"alice", "bob"}
NoUser == "none"
Statuses == {200, 401, 403, 404, 500, 503, 0}
NoStatus == -1      \* an error that carries no HTTP status (a plain Error)
NoItem == -1        \* sessionStorage.getItem() === null
Key == 5            \* environment.encryptionKey
RIds == 1..NProc    \* names of the outstanding refresh calls

VARIABLES
  impl,             \* which version of AuthService runs
  accessToken,      \* AuthService.accessToken, 0 is null
  rt,               \* sessionStorage['rt'] (obfuscated), NoItem when absent
  user,             \* userSignal
  isLoading,        \* isLoadingSignal
  error,            \* errorSignal holds a message
  isInitialized,
  isInitializing,
  handle,           \* refreshTokenInProgress$: 0 is null, else a refresh id
  refreshes,        \* outstanding POST /auth/refresh calls: id -> token sent, 0 when unused
  chains,           \* bag of outstanding call chains (a request and its continuation)
  issued,           \* token pairs the backend has issued so far
  owner,            \* backend: the user each issued token pair belongs to
  delivered,        \* outcomes handed to callers in the last turn, in order
  initRan,          \* initAuth() has been called before
  ops,              \* calls the application has made
  last,             \* the step taken last: its name, chain kind, status and refresh id
  boot,             \* application start: "boot", "init" (initializer pending), "run"
  gw                \* the gateway process: environment, phase, the exchange in hand

vars == <<impl, accessToken, rt, user, isLoading, error, isInitialized,
          isInitializing, handle, refreshes, chains, issued, owner, delivered,
          initRan, ops, last, boot, gw>>

\* ----- obfuscation of the persisted refresh token -----
RECURSIVE Xor(_, _)
Xor(a, b) ==
  IF a = 0 /\ b = 0 THEN 0
  ELSE (((a % 2) + (b % 2)) % 2) + (2 * Xor(a \div 2, b \div 2))

encrypt(text) == Xor(text, Key)

decrypt(encrypted) == Xor(encrypted, Key)

isBrowser == TRUE

\* ----- the state the handlers work on, as one record -----
\* A chain: kind is what the caller does with the outcome, pc where the request
\* stands, obs/ord the refresh call it is subscribed to and its place among the
\* subscribers, sends/refs the sends of the request and the performRefreshToken()
\* calls made for it, hdr the bearer token of its last send, body the refresh
\* token in its body, won the token pair of a login that succeeded meanwhile.
Chain(kind, pc) ==
  [kind |-> kind, pc |-> pc, obs |-> 0, ord |-> 0, sends |-> 0, refs |-> 0,
   hdr |-> 0, body |-> 0, won |-> 0]

St == [accessToken |-> accessToken, rt |-> rt, user |-> user,
       isLoading |-> isLoading, error |-> error,
       isInitialized |-> isInitialized, isInitializing |-> isInitializing,
       handle |-> handle, refreshes |-> refreshes, chains |-> chains,
       issued |-> issued, owner |-> owner, delivered |-> <<>>,
       threw |-> FALSE, full |-> FALSE]

Commit(s) ==
  /\ ~s.full
  /\ accessToken' = s.accessToken
  /\ rt' = s.rt
  /\ user' = s.user
  /\ isLoading' = s.isLoading
  /\ error' = s.error
  /\ isInitialized' = s.isInitialized
  /\ isInitializing' = s.isInitializing
  /\ handle' = s.handle
  /\ refreshes' = s.refreshes
  /\ chains' = s.chains
  /\ issued' = s.issued
  /\ owner' = s.owner
  /\ delivered' = s.delivered
  /\ impl' = impl
  /\ gw' = gw

\* get refreshToken(): null when nothing is stored, else the decrypted item
GetRefreshToken(s) ==
  IF ~isBrowser THEN 0
  ELSE IF s.rt = NoItem THEN 0 ELSE decrypt(s.rt)

\* set refreshToken(token)
SetRefreshToken(s, token) ==
  IF ~isBrowser THEN s
  ELSE IF token # 0 THEN [s EXCEPT !.rt = encrypt(token)]
  ELSE [s EXCEPT !.rt = NoItem]

getAccessToken(s) == s.accessToken

hasRefreshToken(s) == GetRefreshToken(s) # 0

\* computed(() => userSignal() !== null)
isAuthenticated == user # NoUser

clearAuthState(s) ==
  [SetRefreshToken(s, 0) EXCEPT
     !.accessToken = 0, !.user = NoUser, !.isLoading = FALSE, !.error = FALSE,
     !.isInitialized = FALSE, !.isInitializing = FALSE, !.handle = 0]

\* ----- call chains -----
Add(s, c) == [s EXCEPT !.chains = @ (+) SetToBag({c})]
Remove(s, c) == [s EXCEPT !.chains = @ (-) SetToBag({c})]
Outstanding(s) == BagToSet(s.chains)
HasRoom(s) == BagCardinality(s.chains) < NProc

\* the URL of the request a chain of this kind sends
Url(kind) ==
  CASE kind = "login" -> "/auth/login"
    [] kind = "register" -> "/auth/register"
    [] kind = "refresh" -> "/auth/refresh"
    [] kind = "logout" -> "/auth/logout"
    [] kind = "init" -> "/profile"
    [] OTHER -> "/posts"

skipUrls == {"/auth/login", "/auth/register", "/auth/refresh"}

\* a variant that skips the refresh endpoint alone
shouldSkipRefreshOnly(url) == url = "/auth/refresh"

\* authInterceptor, step 1
shouldSkip(url) == url \in skipUrls

\* authInterceptor, steps 2-3 up to next(clonedRequest): the first send
InterceptSend(s, c, body) ==
  Add(s, [c EXCEPT !.pc = "sent1", !.obs = 0, !.ord = 0, !.sends = 1,
                   !.hdr = getAccessToken(s), !.body = body])

\* authInterceptor up to the first send: a skipped request goes out as it is
Intercept(s, c, body) ==
  IF shouldSkip(Url(c.kind))
  THEN Add(s, [c EXCEPT !.pc = "sent1", !.sends = 1, !.body = body])
  ELSE InterceptSend(s, c, body)

\* what a caller is handed: ok or the error's status, src the call the result
\* comes from ("first" send, "retry", "refresh", or "local" for a call that
\* sent nothing), forced whether the interceptor called logout() on the way
Outcome(c, ok, status, src) ==
  [kind |-> c.kind, ok |-> ok, status |-> status, src |-> src,
   sends |-> c.sends, refs |-> c.refs, won |-> c.won, forced |-> FALSE]

Deliver(s, o) == [s EXCEPT !.delivered = Append(@, o)]

\* a login that succeeds is remembered by the initAuth() chains in progress,
\* a logout() call is forgotten by them
MarkWon(s, n) ==
  [s EXCEPT !.chains =
     LET B == s.chains
         f(c) == IF c.kind = "init" THEN [c EXCEPT !.won = n] ELSE c
         img == {f(c) : c \in DOMAIN B}
     IN [d \in img |-> LET pre == {c \in DOMAIN B : f(c) = d}
                           RECURSIVE Sum(_)
                           Sum(S) == IF S = {} THEN 0
                                     ELSE LET x == CHOOSE y \in S : TRUE
                                          IN B[x] + Sum(S \ {x})
                       IN Sum(pre)]]

\* ----- AuthService.logout -----
\* auth.service.ts clears at once; auth.model.ts posts /auth/logout through the
\* interceptor when a refresh token is stored and clears when that call settles.
logout(s) ==
  LET s0 == MarkWon(s, 0) IN
  IF impl = "service"
  THEN Deliver(clearAuthState(s0), Outcome(Chain("logout", "free"), TRUE, NoStatus, "local"))
  ELSE LET refreshToken == GetRefreshToken(s0) IN
       IF refreshToken = 0
       THEN Deliver(clearAuthState(s0),
                    Outcome(Chain("logout", "free"), TRUE, NoStatus, "local"))
       ELSE IF ~HasRoom(s0) THEN [s0 EXCEPT !.full = TRUE]
       ELSE InterceptSend(s0, Chain("logout", "free"), refreshToken)

\* ----- AuthService.performRefreshToken, subscribed at once by chain c -----
\* (c is not in the bag; the result holds c as a subscriber, or threw is set)
Live(s) == {r \in RIds : s.refreshes[r] # 0}
NewRid(s) == CHOOSE r \in RIds \ Live(s) : \A q \in RIds \ Live(s) : r <= q
Subscribers(s, rid) == {c \in Outstanding(s) : c.obs = rid}

\* a variant without the lock: every call posts its own refresh
performRefreshTokenNoLock(s, c) ==
  LET refreshToken == GetRefreshToken(s) IN
  IF refreshToken = 0 THEN [s EXCEPT !.threw = TRUE]
  ELSE LET rid == NewRid(s) IN
       Add([s EXCEPT !.refreshes[rid] = refreshToken, !.handle = rid],
           [c EXCEPT !.obs = rid, !.ord = 1, !.refs = @ + 1])

performRefreshToken(s, c) ==
  IF s.handle # 0
  THEN Add(s, [c EXCEPT !.obs = s.handle,
                        !.ord = Cardinality(Subscribers(s, s.handle)) + 1,
                        !.refs = @ + 1])
  ELSE LET refreshToken == GetRefreshToken(s) IN
       IF refreshToken = 0 THEN [s EXCEPT !.threw = TRUE]
       ELSE LET rid == NewRid(s) IN
            Add([s EXCEPT !.refreshes[rid] = refreshToken, !.handle = rid],
                [c EXCEPT !.obs = rid, !.ord = 1, !.refs = @ + 1])

\* ----- the continuations of a finished request -----
OwnerOf(s, t) == IF t \in DOMAIN s.owner THEN s.owner[t] ELSE NoUser

\* a variant whose tap forgets the profile
fetchUserProfileTapDropsUser(s, data) == [s EXCEPT !.isLoading = FALSE]

\* fetchUserProfile: tap / catchError
fetchUserProfileTap(s, data) == [s EXCEPT !.user = data, !.isLoading = FALSE]
fetchUserProfileCatch(s) == [s EXCEPT !.isLoading = FALSE]

\* initAuth: tap / catchError / finalize
initAuthTap(s) ==
  IF impl = "service"
  THEN [s EXCEPT !.isLoading = FALSE, !.isInitialized = TRUE, !.isInitializing = FALSE]
  ELSE [s EXCEPT !.isInitialized = TRUE]
\* a variant whose catchError leaves the session as it is
initAuthCatchKeepsState(s) == s
initAuthCatch(s) == clearAuthState(s)
initAuthFinalize(s) == [s EXCEPT !.isInitializing = FALSE, !.isLoading = FALSE]

\* a variant of login's tap that leaves the stored refresh token
loginTapKeepsRefreshToken(s, n, u) ==
  [s EXCEPT !.accessToken = n, !.user = u, !.isLoading = FALSE,
            !.isInitialized = TRUE]

\* login/register: tap
loginTap(s, n, u) ==
  [SetRefreshToken([s EXCEPT !.accessToken = n], n) EXCEPT
     !.user = u, !.isLoading = FALSE, !.isInitialized = TRUE]

\* a variant of login's catchError that also clears the session
loginCatchClears(s) == [clearAuthState(s) EXCEPT !.error = TRUE]

\* login/register: catchError
loginCatch(s) == [s EXCEPT !.error = TRUE, !.isLoading = FALSE]

\* a variant of logout's finalize that clears nothing
logoutFinalizeSkips(s) == s

\* logout (auth.model.ts): finalize of the POST /auth/logout pipe
logoutFinalize(s) == clearAuthState(s)

\* what runs downstream of the interceptor once the request of chain c has its
\* outcome: nothing of the session for an API call, fetchUserProfile and the
\* rest of initAuth's pipe for the profile request, logout's finalize
Continue(s, c, ok) ==
  CASE c.kind = "init" ->
         IF ok
         THEN initAuthFinalize(initAuthTap(fetchUserProfileTap(s, OwnerOf(s, c.hdr))))
         ELSE initAuthFinalize(initAuthCatch(fetchUserProfileCatch(s)))
    [] c.kind = "logout" -> logoutFinalize(s)
    [] c.kind \in {"login", "register"} -> IF ok THEN s ELSE loginCatch(s)
    [] OTHER -> s

\* chain c (already taken out of the bag) ends: the interceptor calls logout()
\* where the code does, then the outcome goes to the caller's continuation
Finish(s, c, ok, status, src, callsLogout) ==
  LET s1 == IF callsLogout THEN logout(s) ELSE s
  IN Deliver(Continue(s1, c, ok),
             [Outcome(c, ok, status, src) EXCEPT !.forced = callsLogout])


\* a variant that logs out on every error of the first send
InterceptErrorLogsOut(s, c, status) == Finish(s, c, FALSE, status, "first", TRUE)

\* a variant that takes a 401 without a refresh token for any other error
InterceptErrorKeepsSession(s, c, status) ==
  IF status = 401 /\ hasRefreshToken(s)
  THEN LET s1 == performRefreshToken(s, [c EXCEPT !.pc = "wait"]) IN
       IF s1.threw
       THEN Finish([s1 EXCEPT !.threw = FALSE], c, FALSE, NoStatus, "refresh", TRUE)
       ELSE s1
  ELSE Finish(s, c, FALSE, status, "first", FALSE)

\* ----- authInterceptor: catchError of the first send (c taken out of the bag) -----
InterceptError(s, c, status) ==
  IF status = 401
  THEN IF ~hasRefreshToken(s)
       THEN Finish(s, c, FALSE, 401, "first", TRUE)
       ELSE LET s1 == performRefreshToken(s, [c EXCEPT !.pc = "wait"]) IN
            IF s1.threw
            THEN Finish([s1 EXCEPT !.threw = FALSE], c, FALSE, NoStatus, "refresh", TRUE)
            ELSE s1
  ELSE Finish(s, c, FALSE, status, "first", FALSE)

\* a variant that treats a failed resend like a failed first send
RetryErrorRetriesAgain(s, c, status) == InterceptError(s, c, status)

\* authInterceptor: catchError behind the resent request
RetryError(s, c, status) == Finish(s, c, FALSE, status, "retry", TRUE)

\* a variant of performRefreshToken's finalize that leaves the handle
refreshFinalizeKeepsHandle(s) == s

\* performRefreshToken's finalize, run for a subscriber when the refresh ends
refreshFinalize(s) == [s EXCEPT !.handle = 0]

\* a variant of performRefreshToken's catchError that clears the session
refreshCatchClears(s) == clearAuthState(s)

\* performRefreshToken's catchError: logs and rethrows
refreshCatch(s) == s

\* the refresh a chain waits for has emitted: initAuth's switchMap sends the
\* profile request, the interceptor's switchMap resends the original request
OnRefreshNext(s, c) ==
  IF c.pc = "initwait"
  THEN InterceptSend(Remove(s, c), c, 0)
  ELSE IF c.pc = "direct"
  THEN Deliver(Remove(s, c), Outcome(c, TRUE, 200, "refresh"))
  ELSE Add(Remove(s, c), [c EXCEPT !.pc = "sent2", !.obs = 0, !.ord = 0,
                                   !.sends = @ + 1, !.hdr = getAccessToken(s)])

\* a variant whose interceptor hands the refresh error on without logout()
OnRefreshErrorKeepsSession(s, c, status) ==
  IF c.pc = "initwait"
  THEN refreshFinalize(Deliver(initAuthFinalize(initAuthCatch(Remove(s, c))),
                               Outcome(c, FALSE, status, "refresh")))
  ELSE IF c.pc = "direct"
  THEN refreshFinalize(Deliver(Remove(s, c), Outcome(c, FALSE, status, "refresh")))
  ELSE refreshFinalize(Finish(Remove(s, c), c, FALSE, status, "refresh", FALSE))

\* the refresh a chain waits for has failed: initAuth's catchError clears the
\* session, the interceptor's catchError calls logout() and rethrows; the
\* subscriber's finalize then resets the handle
OnRefreshError(s, c, status) ==
  IF c.pc = "initwait"
  THEN refreshFinalize(Deliver(initAuthFinalize(initAuthCatch(Remove(s, c))),
                               Outcome(c, FALSE, status, "refresh")))
  ELSE IF c.pc = "direct"
  THEN refreshFinalize(Deliver(Remove(s, c), Outcome(c, FALSE, status, "refresh")))
  ELSE refreshFinalize(Finish(Remove(s, c), c, FALSE, status, "refresh", TRUE))

\* the subscriber of refresh rid that subscribed first
First(s, rid) ==
  CHOOSE c \in Subscribers(s, rid) : \A d \in Subscribers(s, rid) : c.ord <= d.ord

RECURSIVE NextAll(_, _)
NextAll(s, rid) ==
  IF Subscribers(s, rid) = {} THEN s
  ELSE NextAll(OnRefreshNext(s, First(s, rid)), rid)

RECURSIVE ErrorAll(_, _, _)
ErrorAll(s, rid, status) ==
  IF Subscribers(s, rid) = {} THEN s
  ELSE ErrorAll(OnRefreshError(s, First(s, rid), status), rid, status)

\* a variant whose tap stores the access token alone
refreshTapKeepsRefreshToken(s, n) == [s EXCEPT !.accessToken = n]

\* performRefreshToken's tap: both tokens are replaced by the response's
refreshTap(s, n) == SetRefreshToken([s EXCEPT !.accessToken = n], n)

\* the backend issues the next token pair, for user u
Issue(s, u) == [s EXCEPT !.issued = @ + 1, !.owner = Append(@, u)]

\* ===== the gateway (SSR server with the BFF proxy) =====

\* process.env, "" for a variable that is not set
Envs == [NODE_ENV : {"", "production"},
         BACKEND_URL : {"", "http://backend"},
         API_KEY_SERVER : {"", "prod-key"}]

isDevelopment(env) == env.NODE_ENV # "production"
DEV_CONFIG == [BACKEND_URL |-> "http://localhost:5000", API_KEY |-> "dev-key"]
PROD_CONFIG(env) == [BACKEND_URL |-> env.BACKEND_URL, API_KEY |-> env.API_KEY_SERVER]
CONFIG(env) == IF isDevelopment(env) THEN DEV_CONFIG ELSE PROD_CONFIG(env)

\* a variant of the start-up check that exits only when both are missing
mustExitBothMissing(env) ==
  ~isDevelopment(env) /\ (CONFIG(env).API_KEY = "" /\ CONFIG(env).BACKEND_URL = "")

\* the start-up check: process.exit(1)
mustExit(env) ==
  ~isDevelopment(env) /\ (CONFIG(env).API_KEY = "" \/ CONFIG(env).BACKEND_URL = "")

\* bodies, paths and requests of the clients; a header that was not sent is ""
Bytes == {0, 1}
Bodies == UNION {[1..n -> Bytes] : n \in 0..MaxBody}
Paths == {<<"api">>, <<"api", "posts">>, <<"apix">>}
Requests ==
  [method : {"GET", "POST"}, path : Paths,
   headers : [ct : {"", "multipart/form-data"}, auth : {"", "Bearer t"},
              xapikey : {"", "client-key"}, enc : {"", "gzip"}],
   body : Bodies]
NoRequest ==
  [method |-> "", path |-> <<>>,
   headers |-> [ct |-> "", auth |-> "", xapikey |-> "", enc |-> ""], body |-> <<>>]

\* zlib's inflate, by a stand-in: a run-length decoder of (count, byte) pairs
RECURSIVE Inflate(_)
Inflate(b) ==
  IF Len(b) < 2 THEN <<>>
  ELSE [i \in 1..b[1] |-> b[2]] \o Inflate(SubSeq(b, 3, Len(b)))
Deflated(b) == Len(b) % 2 = 0

\* express.raw({type: () => true}): req.body stays undefined without a body,
\* a body with a Content-Encoding is inflated, a broken one is an error
expressRaw(req) ==
  IF Len(req.body) = 0 THEN [err |-> FALSE, defined |-> FALSE, bytes |-> <<>>]
  ELSE IF req.headers.enc = "" THEN [err |-> FALSE, defined |-> TRUE, bytes |-> req.body]
  ELSE IF Deflated(req.body)
  THEN [err |-> FALSE, defined |-> TRUE, bytes |-> Inflate(req.body)]
  ELSE [err |-> TRUE, defined |-> FALSE, bytes |-> <<>>]

\* req.path.startsWith('/api/') || req.path === '/api'
isApi(path) == (Len(path) >= 2 /\ path[1] = "api") \/ path = <<"api">>

\* a variant that lets the client's X-API-KEY through
prepareHeadersCopiesKey(req, config) ==
  [ContentType |-> req.headers.ct, Authorization |-> req.headers.auth,
   XApiKey |-> IF req.headers.xapikey # "" THEN req.headers.xapikey ELSE config.API_KEY]

\* handleBffProxy, step 1: the headers of the upstream request ("" is absent)
prepareHeaders(req, config) ==
  [ContentType |-> IF req.headers.ct # "" THEN req.headers.ct ELSE "",
   Authorization |-> IF req.headers.auth # "" THEN req.headers.auth ELSE "",
   XApiKey |-> IF config.API_KEY # "" THEN config.API_KEY ELSE ""]

\* handleBffProxy, step 2: body only when req.body is set
fetchOptions(req, parsed, config) ==
  [method |-> req.method, headers |-> prepareHeaders(req, config),
   hasBody |-> parsed.defined, body |-> parsed.bytes]
NoFetch ==
  [method |-> "", headers |-> [ContentType |-> "", Authorization |-> "", XApiKey |-> ""],
   hasBody |-> FALSE, body |-> <<>>]

\* error messages, as words
Undefined == <<>>
FetchFailed == <<"fetch", "failed">>
ConnRefused == <<"connect", "ECONNREFUSED", "127.0.0.1:5000">>
Terminated == <<"terminated">>
GetWithBody == <<"Request", "with", "GET/HEAD", "method", "cannot", "have", "body">>

\* String.prototype.includes
includes(msg, pat) ==
  \E i \in 0..(Len(msg) - Len(pat)) : SubSeq(msg, i + 1, i + Len(pat)) = pat

Json(code, status, message, err) ==
  [status |-> code, json |-> TRUE, body |-> <<>>,
   data |-> [code |-> code, status |-> status, message |-> message, error |-> err]]
Raw(status, body) ==
  [status |-> status, json |-> FALSE, body |-> body,
   data |-> [code |-> 0, status |-> "", message |-> "", error |-> Undefined]]
NoResponse == Raw(0, <<>>)

\* a variant of the catch block that reports the error text in every mode
proxyCatchLeaks(message, dev) ==
  Json(500, "Internal Server Error", "Error saat menghubungi backend", message)

\* handleBffProxy: the catch block
proxyCatch(message, dev) ==
  IF includes(message, <<"fetch", "failed">>) \/ includes(message, <<"ECONNREFUSED">>)
  THEN Json(503, "Service Unavailable", "Backend Golang tidak running!", Undefined)
  ELSE Json(500, "Internal Server Error", "Error saat menghubungi backend",
            IF dev THEN message ELSE Undefined)

\* the error handler behind the middlewares
errorHandler(message, dev) ==
  Json(500, "Internal Server Error", "Server error", IF dev THEN message ELSE Undefined)

\* Buffer.from(arrayBuffer): the same bytes
Buffer(arrayBuffer) == [i \in 1..Len(arrayBuffer) |-> arrayBuffer[i]]

\* the gateway process before its module is loaded
Process(env) ==
  [env |-> env, phase |-> "load", req |-> NoRequest, up |-> NoFetch,
   called |-> FALSE, ans |-> NoResponse, thrown |-> Undefined, fault |-> "none",
   res |-> NoResponse]

\* ===== actions =====

\* a variant of the initializer that resolves without waiting for initAuth()
ResolvedAtOnce(b, ds) == IF b = "init" THEN "run" ELSE b

\* initializeAuth's subscribe: the promise resolves when initAuth() emits,
\* fails or completes, and the application starts
Resolved(b, ds) ==
  IF b = "init" /\ \E i \in 1..Len(ds) : ds[i].kind = "init" THEN "run" ELSE b

\* of the chain c a step acted on, the kind and the refresh count are kept
Event(name, c, status, rid) ==
  [name |-> name, kind |-> c.kind, refs |-> c.refs, status |-> status, rid |-> rid]
NoChain == Chain("none", "free")

InitSession ==
  /\ impl \in Impls
  /\ accessToken = 0
  /\ rt \in {NoItem, encrypt(1)}
  /\ user = NoUser
  /\ isLoading = FALSE
  /\ error = FALSE
  /\ isInitialized = FALSE
  /\ isInitializing = FALSE
  /\ handle = 0
  /\ refreshes = [r \in RIds |-> 0]
  /\ chains = EmptyBag
  /\ issued = 1
  /\ owner = <<"alice">>
  /\ delivered = <<>>
  /\ initRan = FALSE
  /\ ops = 0
  /\ last = Event("Init", NoChain, NoStatus, 0)
  /\ boot = "boot"

\* the client alone: the gateway process is not part of the behaviour
Init == InitSession /\ gw = [phase |-> "off"]

Called == ops < MaxOps /\ ops' = ops + 1

\* token pairs the backend may have issued: the application started by its
\* initializer gets one pair more, for a refresh after the one of the start
TokLimit == IF boot = "boot" THEN MaxTok ELSE MaxTok + 1

\* login(credentials) / register(data): the call
AuthCall(kind) ==
  /\ Called
  /\ HasRoom(St)
  /\ Commit(Intercept([St EXCEPT !.isLoading = TRUE, !.error = FALSE],
                      Chain(kind, "free"), 0))
  /\ UNCHANGED initRan
  /\ last' = Event("AuthCall", Chain(kind, "free"), NoStatus, 0)
  /\ boot' = Resolved(boot, delivered')

\* the response of POST /auth/login or /auth/register
AuthResponse(c, status, u) ==
  /\ c.pc = "sent1"
  /\ c.kind \in {"login", "register"}
  /\ status = 200 => issued < TokLimit
  /\ LET s0 == Remove(St, c)
     IN IF status = 200
        THEN Commit(Deliver(MarkWon(loginTap(Issue(s0, u), issued + 1, u), issued + 1),
                            Outcome(c, TRUE, 200, "first")))
        ELSE IF shouldSkip(Url(c.kind))
        THEN Commit(Deliver(loginCatch(s0), Outcome(c, FALSE, status, "first")))
        ELSE Commit(InterceptError(s0, c, status))
  /\ UNCHANGED <<ops, initRan>>
  /\ last' = Event("AuthResponse", c, status, 0)
  /\ boot' = Resolved(boot, delivered')

\* logout() called by the application (dashboard layout)
UserLogout ==
  /\ Called
  /\ Commit(logout(St))
  /\ UNCHANGED initRan
  /\ last' = Event("UserLogout", NoChain, NoStatus, 0)
  /\ boot' = Resolved(boot, delivered')

\* an API request of the application passes the interceptor
ApiRequest ==
  /\ Called
  /\ HasRoom(St)
  /\ Commit(InterceptSend(St, Chain("api", "free"), 0))
  /\ UNCHANGED initRan
  /\ last' = Event("ApiRequest", NoChain, NoStatus, 0)
  /\ boot' = Resolved(boot, delivered')

\* initAuth(): the call and what it does before it returns
initAuth ==
  /\ Called
  /\ initRan' = TRUE
  /\ LET Ret(s, how) == Deliver(s, Outcome(Chain("init", "free"), TRUE, NoStatus, how))
         Pipe(s) ==
           IF ~HasRoom(s) THEN [s EXCEPT !.full = TRUE]
           ELSE LET c == Chain("init", "initwait")
                    s1 == performRefreshToken(s, c)
                IN IF s1.threw
                   THEN Deliver(initAuthFinalize(initAuthCatch([s1 EXCEPT !.threw = FALSE])),
                                Outcome(c, FALSE, NoStatus, "refresh"))
                   ELSE s1
         Start(s) == [s EXCEPT !.isInitializing = TRUE, !.isLoading = TRUE]
     IN IF ~isBrowser THEN Commit(Ret(St, "EMPTY"))
        ELSE IF impl = "service"
        THEN IF isInitialized THEN Commit(Ret(St, "EMPTY"))
             ELSE IF isInitializing THEN Commit(Ret(St, "EMPTY"))
             ELSE IF ~hasRefreshToken(St)
             THEN Commit(Ret([St EXCEPT !.isInitialized = TRUE], "EMPTY"))
             ELSE Commit(Pipe(Start(St)))
        ELSE IF isInitialized THEN Commit(Ret(St, "of"))
             ELSE IF isInitializing THEN Commit(Ret(St, "EMPTY"))
             ELSE IF GetRefreshToken(Start(St)) = 0
             THEN Commit(Ret([St EXCEPT !.isInitializing = FALSE,
                                        !.isLoading = FALSE,
                                        !.isInitialized = TRUE], "of"))
             ELSE Commit(Pipe(Start(St)))

\* initAuth() called by a component
InitAuth ==
  /\ initAuth
  /\ last' = Event("InitAuth", NoChain, NoStatus, 0)
  /\ boot' = Resolved(boot, delivered')

\* performRefreshToken() called and subscribed by a caller that does nothing
\* more with its result
RefreshCall ==
  /\ Called
  /\ HasRoom(St)
  /\ LET c == Chain("refresh", "direct")
         s1 == performRefreshToken(St, c)
     IN IF s1.threw
        THEN Commit(Deliver([s1 EXCEPT !.threw = FALSE],
                            Outcome(c, FALSE, NoStatus, "refresh")))
        ELSE Commit(s1)
  /\ UNCHANGED initRan
  /\ last' = Event("RefreshCall", NoChain, NoStatus, 0)
  /\ boot' = Resolved(boot, delivered')

\* the response of the first send of an intercepted request
Response(c, status) ==
  /\ c.pc = "sent1"
  /\ c.kind \in {"api", "init", "logout"}
  /\ (status = 200 /\ c.kind = "init") => c.hdr \in 1..issued
  /\ IF status = 200
     THEN Commit(Finish(Remove(St, c), c, TRUE, 200, "first", FALSE))
     ELSE Commit(InterceptError(Remove(St, c), c, status))
  /\ UNCHANGED <<ops, initRan>>
  /\ last' = Event("Response", c, status, 0)
  /\ boot' = Resolved(boot, delivered')

\* the response of the resent request
RetryResponse(c, status) ==
  /\ c.pc = "sent2"
  /\ (status = 200 /\ c.kind = "init") => c.hdr \in 1..issued
  /\ IF status = 200
     THEN Commit(Finish(Remove(St, c), c, TRUE, 200, "retry", FALSE))
     ELSE Commit(RetryError(Remove(St, c), c, status))
  /\ UNCHANGED <<ops, initRan>>
  /\ last' = Event("RetryResponse", c, status, 0)
  /\ boot' = Resolved(boot, delivered')

\* the response of POST /auth/refresh (skipped by the interceptor)
RefreshResponse(rid, status) ==
  /\ refreshes[rid] # 0
  /\ shouldSkip(Url("refresh"))
  /\ status = 200 => (issued < TokLimit /\ refreshes[rid] \in 1..issued)
  /\ LET sent == refreshes[rid]
         s0 == [St EXCEPT !.refreshes[rid] = 0]
     IN IF status = 200
        THEN Commit(refreshFinalize(
                      NextAll(refreshTap(Issue(s0, OwnerOf(s0, sent)), issued + 1), rid)))
        ELSE Commit(ErrorAll(refreshCatch(s0), rid, status))
  /\ UNCHANGED <<ops, initRan>>
  /\ last' = Event("RefreshResponse", NoChain, status, rid)
  /\ boot' = Resolved(boot, delivered')

Next ==
  \/ \E kind \in {"login", "register"} : AuthCall(kind)
  \/ \E c \in Outstanding(St), status \in Statuses, u \in Users : AuthResponse(c, status, u)
  \/ UserLogout
  \/ ApiRequest
  \/ InitAuth
  \/ \E c \in Outstanding(St), status \in Statuses : Response(c, status)
  \/ \E c \in Outstanding(St), status \in Statuses : RetryResponse(c, status)
  \/ \E rid \in RIds, status \in Statuses : RefreshResponse(rid, status)

Spec == Init /\ [][Next]_vars

TypeOK ==
  /\ impl \in Impls
  /\ accessToken \in 0..(MaxTok + 1)
  /\ user \in Users \cup {NoUser}
  /\ handle \in 0..NProc
  /\ issued \in 1..(MaxTok + 1)
  /\ ops \in 0..MaxOps
  /\ BagCardinality(chains) <= NProc
  /\ boot \in {"boot", "init", "run"}

\* a set handle always names an outstanding refresh call, and every
\* outstanding refresh call has a subscriber
HandleLive ==
  /\ handle # 0 => refreshes[handle] # 0
  /\ \A r \in RIds : refreshes[r] # 0 <=> Subscribers(St, r) # {}


\* ===== further specifications =====

sessionVars == <<impl, accessToken, rt, user, isLoading, error, isInitialized,
                 isInitializing, handle, refreshes, chains, issued, owner,
                 delivered, initRan, ops, last, boot>>

\* the module of the gateway is loaded: CONFIG is chosen, and production
\* without a backend origin or a service key exits
Load ==
  /\ gw.phase = "load"
  /\ gw' = [gw EXCEPT !.phase = IF mustExit(gw.env) THEN "exited" ELSE "serving"]
  /\ UNCHANGED sessionVars

\* a request arrives: express.raw, the /api test and handleBffProxy up to fetch
Receive(req) ==
  /\ gw.phase = "serving"
  /\ LET dev == isDevelopment(gw.env)
         parsed == expressRaw(req)
         opts == fetchOptions(req, parsed, CONFIG(gw.env))
         g == [gw EXCEPT !.req = req]
     IN gw' =
          IF parsed.err
          THEN [g EXCEPT !.phase = "done", !.fault = "parse",
                         !.res = errorHandler(<<"incorrect", "header", "check">>, dev)]
          ELSE IF ~isApi(req.path)
          THEN [g EXCEPT !.phase = "done", !.res = Raw(200, <<>>)]
          ELSE IF opts.method = "GET" /\ opts.hasBody
          THEN [g EXCEPT !.phase = "done", !.thrown = GetWithBody, !.fault = "other",
                         !.res = proxyCatch(GetWithBody, dev)]
          ELSE [g EXCEPT !.phase = "fetching", !.up = opts, !.called = TRUE]
  /\ UNCHANGED sessionVars

\* the backend answers and the answer is handed to the client
Answer(status, body) ==
  /\ gw.phase = "fetching"
  /\ gw' = [gw EXCEPT !.phase = "done", !.ans = Raw(status, body),
                      !.res = Raw(status, Buffer(body))]
  /\ UNCHANGED sessionVars

\* fetch fails (the backend does not accept the connection), or the body of
\* the answer breaks off while it is read
Fail(message, fault) ==
  /\ gw.phase = "fetching"
  /\ gw' = [gw EXCEPT !.phase = "done", !.thrown = message, !.fault = fault,
                      !.res = proxyCatch(message, isDevelopment(gw.env))]
  /\ UNCHANGED sessionVars

\* the exchange is over; the gateway keeps nothing of it
Forget ==
  /\ gw.phase = "done"
  /\ gw' = [Process(gw.env) EXCEPT !.phase = "serving"]
  /\ UNCHANGED sessionVars

Faults == {<<FetchFailed, "connect">>, <<ConnRefused, "connect">>, <<Terminated, "other">>}

NextGateway ==
  \/ Load
  \/ \E req \in Requests : Receive(req)
  \/ \E status \in {200, 404, 500}, body \in Bodies : Answer(status, body)
  \/ \E f \in Faults : Fail(f[1], f[2])
  \/ Forget

InitGateway ==
  /\ InitSession /\ impl = "service" /\ rt = NoItem
  /\ gw \in {Process(env) : env \in Envs}

SpecGateway == InitGateway /\ [][NextGateway]_vars

\* the application with the AuthService its components, guards and interceptor
\* import (core/services/auth.service.ts)
InitService == Init /\ impl = "service"
SpecService == InitService /\ [][Next]_vars

\* the callers of performRefreshToken() alone: intercepted requests and
\* initAuth(), with no login, register or logout by the application
NextCallers ==
  \/ ApiRequest
  \/ InitAuth
  \/ \E c \in Outstanding(St), status \in Statuses : Response(c, status)
  \/ \E c \in Outstanding(St), status \in Statuses : RetryResponse(c, status)
  \/ \E rid \in RIds, status \in Statuses : RefreshResponse(rid, status)

SpecCallers == Init /\ [][NextCallers]_vars

\* the callers of performRefreshToken() together with direct calls of it
NextRefresh ==
  \/ RefreshCall
  \/ ApiRequest
  \/ InitAuth
  \/ \E c \in Outstanding(St), status \in Statuses : Response(c, status)
  \/ \E c \in Outstanding(St), status \in Statuses : RetryResponse(c, status)
  \/ \E rid \in RIds, status \in Statuses : RefreshResponse(rid, status)

SpecRefresh == Init /\ [][NextRefresh]_vars

\* the application as it is bootstrapped: the initializer calls initAuth() once
\* and holds the start of the router until its promise resolves; guards and
\* the components' calls come only after that
InitializeAuth ==
  /\ boot = "boot"
  /\ initAuth
  /\ last' = Event("InitializeAuth", NoChain, NoStatus, 0)
  /\ boot' = Resolved("init", delivered')

\* authGuard: admits the navigation when isAuthenticated()
authGuard ==
  /\ boot = "run"
  /\ Called
  /\ Commit(Deliver(St, Outcome(Chain("guard", "free"), isAuthenticated, NoStatus, "local")))
  /\ UNCHANGED initRan
  /\ last' = Event("authGuard", NoChain, NoStatus, 0)
  /\ boot' = Resolved(boot, delivered')

NextApp ==
  \/ InitializeAuth
  \/ authGuard
  \/ boot = "run" /\ AuthCall("login")
  \/ boot = "run" /\ UserLogout
  \/ boot = "run" /\ ApiRequest
  \/ \E c \in Outstanding(St), status \in Statuses, u \in Users : AuthResponse(c, status, u)
  \/ \E c \in Outstanding(St), status \in Statuses : Response(c, status)
  \/ \E c \in Outstanding(St), status \in Statuses : RetryResponse(c, status)
  \/ \E rid \in RIds, status \in Statuses : RefreshResponse(rid, status)

SpecApp == Init /\ [][NextApp]_vars

\* ===== claims =====

Outcomes == {delivered[i] : i \in 1..Len(delivered)}
Waiting == {c \in Outstanding(St) : c.pc \in {"wait", "initwait", "direct"}}
SessionAbsent ==
  accessToken = 0 /\ rt = NoItem /\ user = NoUser /\ ~isAuthenticated
InitEnded(d) == d.kind = "init" /\ d.src \in {"first", "retry", "refresh"}

\* C1: N >= 2 performRefreshToken() calls made before the first one settles
\* share one POST /auth/refresh: at most one is outstanding, every waiting
\* caller is subscribed to it, and when it settles no caller is left waiting
\* and all callers that fail get the same error.
C1_Coalesced ==
  /\ Cardinality(Live(St)) <= 1
  /\ \A c \in Waiting : refreshes[c.obs] # 0
  /\ \A i, j \in 1..Len(delivered) :
       (delivered[i].src = "refresh" /\ delivered[j].src = "refresh")
         => delivered[i].status = delivered[j].status

C1_Witness ==
  /\ Cardinality({i \in 1..Len(delivered) : delivered[i].src = "refresh"}) >= 2
  /\ Waiting = {}

\* C2: in every reachable state at most one POST /auth/refresh is outstanding
\* at the backend.
C2_SingleFlight == Cardinality(Live(St)) <= 1

\* C3: after logout() the session reaches a state with accessToken, persisted
\* refresh token and user absent (isAuthenticated() false): whenever a logout
\* completes they are absent, whatever the revocation call answered (200, an
\* error status, 0 for an unreachable backend), and a logout that has not
\* completed is waiting for an HTTP response that is still outstanding.
C3_LogoutClears ==
  /\ (\E d \in Outcomes : d.kind = "logout") => SessionAbsent
  /\ \A c \in Outstanding(St) :
       c.kind = "logout"
         => \/ c.pc \in {"sent1", "sent2"}
            \/ c.pc = "wait" /\ refreshes[c.obs] # 0

C3_Witness ==
  \E d \in Outcomes : d.kind = "logout" /\ ~d.ok /\ d.status \in {0, 500, 503}

\* C4: when a login succeeded while an initAuth() was in progress, the session
\* holds the tokens and the user of the login response, and isInitialized,
\* once the initAuth() has settled.
C4_LoginWins ==
  \A d \in Outcomes :
    (InitEnded(d) /\ d.won # 0)
      => /\ accessToken = d.won
         /\ rt = encrypt(d.won)
         /\ user = owner[d.won]
         /\ isInitialized

\* C5: an initAuth() call made while an earlier one is in progress starts no
\* backend call, and one made after the earlier ones have completed starts no
\* backend call and changes no session state.
C5_InitIdempotent ==
  [][(InitAuth /\ initRan)
       => /\ chains' = chains /\ refreshes' = refreshes
          /\ (\A c \in Outstanding(St) : c.kind # "init")
               => <<accessToken, rt, user, isInitialized, isInitializing>>'
                    = <<accessToken, rt, user, isInitialized, isInitializing>>]_vars

\* C6: once isInitialized is true no later operation resets it to false.
C6_ReadyTerminal == [][isInitialized => isInitialized']_vars

\* C7: every initAuth() that entered INITIALIZING ends with isInitialized
\* true and isInitializing false, on the success and on every failure path.
C7_InitEndsReady ==
  \A d \in Outcomes : InitEnded(d) => (isInitialized /\ ~isInitializing)

\* C8: an initAuth() whose refresh the backend rejects ends with user,
\* accessToken and persisted refresh token absent and isAuthenticated() false.
C8_RejectedInitClears ==
  \A d \in Outcomes :
    (d.kind = "init" /\ d.src = "refresh" /\ d.status = 401 /\ d.sends = 0)
      => SessionAbsent

C8_Witness ==
  \E d \in Outcomes :
    d.kind = "init" /\ d.src = "refresh" /\ d.status = 401 /\ d.sends = 0

\* C9: an initAuth() whose refresh and profile calls succeed ends with
\* isAuthenticated() true and user populated after one refresh and one profile
\* call, and the profile call is sent only once a refresh has succeeded (it
\* carries the access token of that refresh).
C9_ReloadRestores ==
  /\ \A d \in Outcomes :
       (d.kind = "init" /\ d.ok /\ d.src = "first")
         => (isAuthenticated /\ user \in Users /\ d.sends = 1 /\ d.refs = 1)
  /\ \A c \in Outstanding(St) :
       (c.kind = "init" /\ c.sends >= 1) => (c.refs >= 1 /\ c.hdr \in 2..issued)

C9_Witness ==
  /\ \E d \in Outcomes : d.kind = "init" /\ d.ok /\ d.src = "first"
  /\ isAuthenticated
  /\ accessToken # 0

\* C10: a request answered 401 while a refresh token exists is resent exactly
\* once after the refresh succeeded and the caller gets the retry's response
\* (200, or the retry's error such as a second 401); no request is sent a
\* third time or refreshed a second time.
OwnRefs(x) == IF x.kind = "init" THEN x.refs - 1 ELSE x.refs
C10_RetryOnce ==
  /\ \A c \in Outstanding(St) :
       /\ c.sends <= 2 /\ OwnRefs(c) <= 1
       /\ c.pc = "sent2" => (c.sends = 2 /\ OwnRefs(c) = 1)
       /\ c.pc = "wait" => (c.sends = 1 /\ OwnRefs(c) = 1)
  /\ \A d \in Outcomes :
       /\ d.src = "retry" => (d.sends = 2 /\ OwnRefs(d) = 1)
       /\ d.src = "first" => d.sends = 1
       /\ d.sends <= 2

C10_Witness ==
  \E d \in Outcomes : d.kind = "api" /\ d.src = "retry" /\ d.status = 401


\* the effect of a logout() call: the session is cleared, or (auth.model.ts,
\* with a refresh token stored) the POST /auth/logout is outstanding
LoggedOutOrLeaving ==
  \/ SessionAbsent
  \/ impl = "model" /\ \E c \in Outstanding(St) : c.kind = "logout"
Resent == {c \in Outstanding(St) : c.pc = "sent2"}

\* C11: when a request was answered 401, a refresh token existed and the
\* refresh fails, the interceptor calls logout(), the caller receives the
\* error of the refresh call (its status, not the 401 of the request) and the
\* request is not resent.
C11_RefreshFailureLogsOut ==
  [][(last'.name = "RefreshResponse" /\ last'.status # 200)
       => /\ \A c \in Subscribers(St, last'.rid) :
               c.pc = "wait"
                 => \E d \in Outcomes' :
                      /\ d.kind = c.kind /\ d.sends = 1 /\ d.refs = c.refs
                      /\ ~d.ok /\ d.src = "refresh" /\ d.status = last'.status
                      /\ d.forced
          /\ (\E c \in Subscribers(St, last'.rid) : c.pc = "wait")
               => LoggedOutOrLeaving'
          /\ Resent' \subseteq Resent]_vars

C11_Witness ==
  \E d \in Outcomes :
    d.kind = "api" /\ d.src = "refresh" /\ d.status = 500 /\ d.forced /\ d.sends = 1

\* C12: the interceptor forces a logout only on an auth rejection: a refresh
\* that fails with 503, 0 or another 5xx, and a resent request that fails with
\* a status other than 401, reach the caller without a logout() call.
C12_LogoutOnlyOnRejection ==
  \A d \in Outcomes :
    (\/ d.src = "refresh" /\ d.sends >= 1 /\ d.status \in {503, 0, 500}
     \/ d.src = "retry" /\ ~d.ok /\ d.status # 401)
      => ~d.forced

\* C13: when a request is answered 401 and no refresh token is persisted, the
\* interceptor calls logout(), sends no refresh call, does not resend the
\* request, and the caller receives the original 401.
C13_NoTokenLogsOut ==
  [][(last'.name = "Response" /\ last'.status = 401 /\ ~hasRefreshToken(St))
       => /\ refreshes' = refreshes
          /\ handle' = 0
          /\ BagCardinality(chains') = BagCardinality(chains) - 1
          /\ Resent' \subseteq Resent
          /\ SessionAbsent'
          /\ \E d \in Outcomes' :
               /\ d.kind = last'.kind /\ d.src = "first" /\ d.status = 401 /\ ~d.ok
               /\ d.forced /\ d.sends = 1 /\ d.refs = last'.refs]_vars

C13_Witness ==
  \E d \in Outcomes :
    d.kind = "api" /\ d.src = "first" /\ d.status = 401 /\ d.forced /\ d.refs = 0

\* C15: when the first send of an intercepted request fails with a status
\* other than 401, the interceptor sends no refresh call, does not resend the
\* request and does not call logout(); the caller receives that error, and for
\* an API request the session is left as it was.
C15_OtherErrorsPassThrough ==
  [][(last'.name = "Response" /\ last'.status \notin {200, 401})
       => /\ refreshes' = refreshes
          /\ BagCardinality(chains') = BagCardinality(chains) - 1
          /\ Resent' \subseteq Resent
          /\ \E d \in Outcomes' :
               /\ d.kind = last'.kind /\ d.src = "first" /\ ~d.ok
               /\ d.status = last'.status
               /\ ~d.forced /\ d.sends = 1 /\ d.refs = last'.refs
          /\ last'.kind = "api"
               => UNCHANGED <<accessToken, rt, user, isInitialized,
                              isInitializing, handle>>]_vars

C15_Witness ==
  \E d \in Outcomes :
    d.kind = "api" /\ d.src = "first" /\ d.status = 503 /\ ~d.forced /\ d.sends = 1


\* C14: a request to the login or register endpoint carries no Authorization
\* header and, whatever error it gets, starts no refresh, no resend and no
\* logout(): its error only reaches the caller; and a failing refresh call
\* starts no further refresh call.
C14_AuthEndpointsSkipped ==
  [][/\ \A c \in BagToSet(chains') :
          c.kind \in {"login", "register"}
            => c.hdr = 0 /\ c.pc = "sent1" /\ c.sends = 1 /\ c.refs = 0
     /\ \A d \in Outcomes' :
          d.kind \in {"login", "register"}
            => d.src = "first" /\ d.sends = 1 /\ d.refs = 0 /\ ~d.forced
     /\ (last'.name = "AuthResponse" /\ last'.status # 200)
          => /\ refreshes' = refreshes /\ handle' = handle
             /\ BagCardinality(chains') = BagCardinality(chains) - 1
             /\ UNCHANGED <<accessToken, rt, user>>
     /\ (last'.name = "RefreshResponse" /\ last'.status # 200)
          => {r \in RIds : refreshes'[r] # 0} \subseteq Live(St) \ {last'.rid}]_vars

\* a login answered 401 while a session with a refresh token exists
C14_Witness ==
  /\ \E d \in Outcomes : d.kind = "login" /\ d.status = 401 /\ ~d.ok
  /\ accessToken # 0
  /\ hasRefreshToken(St)


C17_LoginFailureFrame ==
  [][/\ last'.name = "AuthCall"
          => UNCHANGED <<accessToken, rt, user, isInitialized, isInitializing,
                         handle, refreshes>>
     /\ (last'.name = "AuthResponse" /\ last'.status # 200)
          => /\ UNCHANGED <<accessToken, rt, user, isInitialized, isInitializing,
                            handle, refreshes>>
             /\ error'
             /\ \E d \in Outcomes' :
                  d.kind = last'.kind /\ ~d.ok /\ d.status = last'.status]_vars

\* a login that failed while a session existed
C17_Witness ==
  /\ \E d \in Outcomes : d.kind \in {"login", "register"} /\ ~d.ok /\ d.status = 500
  /\ accessToken # 0 /\ user # NoUser /\ isInitialized /\ error

\* C18: a refresh answered 200 replaces accessToken and the persisted refresh
\* token by the pair of the response in the one step of its response, the
\* stored refresh token differs from the one that was sent, and in no state
\* does an access token stand beside a refresh token of another pair.
C18_RefreshRotates ==
  [][/\ (last'.name = "RefreshResponse" /\ last'.status = 200)
          => /\ issued' = issued + 1
             /\ accessToken' = issued'
             /\ rt' # NoItem /\ decrypt(rt') = issued'
             /\ decrypt(rt') # refreshes[last'.rid]
     /\ accessToken' # 0 => (rt' # NoItem /\ decrypt(rt') = accessToken')]_vars

C18_Witness ==
  /\ issued = 2 /\ accessToken = 2 /\ rt = encrypt(2)
  /\ \E c \in Outstanding(St) : c.pc = "sent2" /\ c.hdr = 2


\* C19: a refresh that fails hands its error to every caller waiting for it,
\* and performRefreshToken() itself changes nothing of the session (seen when
\* only direct callers wait: no caller's handler runs); a call made with no
\* persisted refresh token fails at once with the no-refresh-token error,
\* sends no HTTP call and leaves the handle absent.
C19_RefreshFailurePropagates ==
  [][/\ (last'.name = "RefreshResponse" /\ last'.status # 200)
          => /\ Cardinality({i \in 1..Len(delivered') :
                               /\ delivered'[i].src = "refresh"
                               /\ ~delivered'[i].ok
                               /\ delivered'[i].status = last'.status})
                  = Cardinality(Subscribers(St, last'.rid))
             /\ (\A c \in Subscribers(St, last'.rid) : c.pc = "direct")
                  => UNCHANGED <<accessToken, rt, user, isInitialized, isInitializing>>
     /\ (last'.name = "RefreshCall" /\ ~hasRefreshToken(St))
          => /\ refreshes' = refreshes /\ handle = 0 /\ handle' = 0
             /\ chains' = chains
             /\ UNCHANGED <<accessToken, rt, user, isInitialized, isInitializing>>
             /\ \E d \in Outcomes' :
                  /\ d.kind = "refresh" /\ ~d.ok
                  /\ d.status = NoStatus /\ d.src = "refresh"]_vars

\* two direct callers were handed the 503 of one refresh and the session stands
C19_Witness ==
  /\ Cardinality({i \in 1..Len(delivered) :
                    /\ delivered[i].kind = "refresh" /\ ~delivered[i].ok
                    /\ delivered[i].status = 503}) = 2
  /\ accessToken # 0 /\ user # NoUser /\ hasRefreshToken(St)

\* C20: after a refresh has settled, by success or by error, the handle
\* refreshTokenInProgress$ is absent, and a handle that is set always names a
\* refresh call that is still outstanding, so the next performRefreshToken()
\* sends a new POST /auth/refresh.
C20_HandleCleared ==
  /\ handle # 0 => refreshes[handle] # 0
  /\ last.name = "RefreshResponse" => handle = 0

\* a second refresh is outstanding after a first one succeeded and its
\* request was resent
C20_Witness ==
  /\ handle # 0
  /\ \E c \in Outstanding(St) : c.pc = "sent2" /\ c.refs = 1
  /\ \E c \in Outstanding(St) : c.pc = "wait" /\ c.obs = handle


\* C21: isAuthenticated() is true exactly when accessToken is present, so it is
\* already true once a refresh has succeeded and the profile has not yet been
\* fetched (user still absent).
C21_AuthenticatedIffToken == isAuthenticated <=> accessToken # 0

\* C22: logout() called while a refresh token is persisted sends one POST
\* /auth/logout carrying that token and clears the local state only after it;
\* logout() called with no persisted refresh token sends nothing and clears
\* the local state at once.
C22_LogoutNotifiesBackend ==
  [][last'.name = "UserLogout"
       => IF hasRefreshToken(St)
          THEN /\ \E c \in BagToSet(chains') :
                    /\ c.kind = "logout" /\ c.pc = "sent1" /\ c.sends = 1
                    /\ c.body = GetRefreshToken(St)
                    /\ chains' = chains (+) SetToBag({c})
               /\ rt' = rt
          ELSE /\ chains' = chains
               /\ SessionAbsent']_vars

\* an initAuth() in progress: its flag is set or its chain is outstanding
InitInProgress == isInitializing \/ \E c \in Outstanding(St) : c.kind = "init"

\* C23: the initializer resolves only when initAuth() has reached its final
\* state (session restored, or session cleared), on every outcome of
\* initAuth(): while it has not resolved, initAuth()'s chain awaits an HTTP
\* response that is outstanding; and no guard is evaluated while an
\* initialization is in progress.
C23_GuardsAfterInit ==
  [][/\ (boot # "run" /\ boot' = "run")
          => /\ ~InitInProgress'
             /\ \/ SessionAbsent'
                \/ isAuthenticated' /\ accessToken' # 0 /\ rt' = encrypt(accessToken')
     /\ (\E d \in Outcomes' : d.kind = "init") => boot' = "run"
     /\ boot' = "init"
          => \E c \in BagToSet(chains') :
               /\ c.kind = "init"
               /\ \/ c.pc \in {"sent1", "sent2"}
                  \/ c.pc \in {"initwait", "wait"} /\ refreshes'[c.obs] # 0
     /\ last'.name = "authGuard" => (boot = "run" /\ ~InitInProgress)]_vars

\* the first guard after a start that restored the session admits the navigation
C23_Witness ==
  /\ last.name = "authGuard"
  /\ ops = 2
  /\ \E d \in Outcomes : d.kind = "guard" /\ d.ok
  /\ accessToken # 0

\* C24: every request the gateway forwards carries X-API-KEY equal to the
\* configured service key, whatever the client sent; of the client's headers
\* only Content-Type and Authorization go upstream, so requests that differ in
\* other headers alone (a client's X-API-KEY among them) give the same
\* upstream headers.
C24_ServiceKeyInjected ==
  gw.called
    => /\ gw.up.headers.XApiKey = CONFIG(gw.env).API_KEY
       /\ gw.up.headers.XApiKey # ""
       /\ gw.up.headers.ContentType = gw.req.headers.ct
       /\ gw.up.headers.Authorization = gw.req.headers.auth
       /\ \A r \in Requests :
            (r.headers.ct = gw.req.headers.ct /\ r.headers.auth = gw.req.headers.auth)
              => prepareHeaders(r, CONFIG(gw.env)) = gw.up.headers

\* a production gateway forwarded a request that brought its own X-API-KEY
C24_Witness ==
  /\ gw.called
  /\ gw.env.NODE_ENV = "production"
  /\ gw.req.headers.xapikey = "client-key"
  /\ gw.up.headers.XApiKey = "prod-key"

\* C25: when the upstream call fails with a connection failure the client gets
\* status 503 with the body {code: 503, status: "Service Unavailable",
\* data: {message}}; any other exception gives status 500; and in production
\* neither response holds the text of the error.
C25_UpstreamFailure ==
  (gw.phase = "done" /\ gw.fault \in {"connect", "other"})
    => /\ gw.res.json
       /\ gw.fault = "connect"
            => /\ gw.res.status = 503
               /\ gw.res.data.code = 503
               /\ gw.res.data.status = "Service Unavailable"
               /\ gw.res.data.message = "Backend Golang tidak running!"
               /\ gw.res.data.error = Undefined
       /\ gw.fault = "other" => (gw.res.status = 500 /\ gw.res.data.code = 500)
       /\ ~isDevelopment(gw.env) => gw.res.data.error = Undefined

\* in production the body of the answer broke off while it was read
C25_Witness ==
  /\ gw.phase = "done" /\ gw.called
  /\ gw.thrown = Terminated
  /\ gw.env.NODE_ENV = "production"
  /\ gw.res.status = 500

\* C26: for every request under /api the body handed to the upstream call is
\* the byte sequence received from the client, for any content type and any
\* bytes, and the response to the client carries the status and the body of
\* the upstream response.
C26_BodyForwardedVerbatim ==
  /\ gw.called => gw.up.body = gw.req.body
  /\ (gw.phase = "done" /\ gw.called /\ gw.fault = "none")
       => (gw.res.status = gw.ans.status /\ gw.res.body = gw.ans.body /\ ~gw.res.json)

\* C27: in production the gateway process exits when it is loaded, before it
\* serves a request, whenever the backend origin or the service key is not
\* configured, and it serves in production only when both are set.
C27_ProductionNeedsConfig ==
  /\ (gw.env.NODE_ENV = "production"
        /\ (gw.env.BACKEND_URL = "" \/ gw.env.API_KEY_SERVER = ""))
       => (gw.phase \in {"load", "exited"} /\ gw.req = NoRequest /\ ~gw.called)
  /\ gw.phase = "exited"
       => /\ gw.env.NODE_ENV = "production"
          /\ (gw.env.BACKEND_URL = "" \/ gw.env.API_KEY_SERVER = "")

\* production with a service key and no backend origin has exited
C27_Witness ==
  /\ gw.phase = "exited"
  /\ gw.env.API_KEY_SERVER # ""
  /\ gw.env.BACKEND_URL = ""

\* C28: once logout() has cleared the local session, accessToken, the
\* persisted refresh token and user stay absent until a login() or register()
\* succeeds: no response of a call that was outstanding at the logout
\* restores one of them.
C28_LogoutIsFinal ==
  [][(SessionAbsent /\ \E d \in Outcomes : d.kind = "logout")
       => \/ SessionAbsent'
          \/ last'.name = "AuthResponse" /\ last'.status = 200]_vars

\* C29: in every reachable state user present implies accessToken present,
\* and accessToken present implies a persisted refresh token.
C29_CredentialChain ==
  /\ user # NoUser => accessToken # 0
  /\ accessToken # 0 => rt # NoItem

\* C30: no POST /auth/refresh carries a refresh token the backend has already
\* consumed.  A call carries the token that is stored when
\* performRefreshToken() is called, which is the one issued last; a refresh
\* answered 200 leaves its token neither stored nor carried by another call;
\* and, the backend consuming a token before its response arrives, no two
\* outstanding calls carry the same token.
C30_NoTokenReuse ==
  [][/\ \A r \in RIds :
          (refreshes[r] = 0 /\ refreshes'[r] # 0)
            => /\ refreshes'[r] = GetRefreshToken(St)
               /\ refreshes'[r] = issued
     /\ (last'.name = "RefreshResponse" /\ last'.status = 200)
          => /\ rt' # NoItem => decrypt(rt') # refreshes[last'.rid]
             /\ \A r \in RIds : refreshes'[r] # refreshes[last'.rid]
     /\ (rt' # rt /\ rt' # NoItem) => (issued' = issued + 1 /\ decrypt(rt') = issued')
     /\ \A r1, r2 \in RIds :
          (refreshes'[r1] # 0 /\ refreshes'[r1] = refreshes'[r2]) => r1 = r2]_vars

\* a refresh carrying the rotated token is outstanding after the first token
\* was consumed by a refresh
C30_Witness ==
  /\ impl = "service"
  /\ issued = 2 /\ user = NoUser
  /\ \E r \in Live(St) : refreshes[r] = 2
  /\ \E c \in Outstanding(St) : c.kind = "api" /\ c.pc = "wait" /\ c.sends = 1

====
